---- MODULE Spec2Model ----
(***************************************************************************)
(* Model of WebhookClient (src/dialogflow-fulfillment.js): construction,   *)
(* the response accumulator (add / send_), the context store and the       *)
(* dispatch engine (handleRequest).                                        *)
(*                                                                         *)
(* Methods of the class are operators from state to state; the actions are *)
(* the calls a handler or host makes to them.  response-builder, v1-agent  *)
(* and v2-agent are not part of the modelled file: what the client needs   *)
(* from them is modelled from their documented contract.                   *)
(***************************************************************************)
EXTENDS Integers, Sequences, FiniteSets, TLC

\* ----------------------------------------------------------------- bounds
MaxAdds == 3        \* add calls (response elements created) per request
MaxReplies == 2     \* replies carried by one Suggestions element
MaxContexts == 3    \* outgoing contexts per request
MaxDeferred == 1    \* elements a deferred callback computation adds

\* -------------------------------------------------------------- constants
RESPONSE_CODE_BAD_REQUEST == 400

\* an absent value (undefined or null)
Absent == "undefined"
\* PLATFORMS of response-builder
UNSPECIFIED == "PLATFORM_UNSPECIFIED"
ACTIONS_ON_GOOGLE == "ACTIONS_ON_GOOGLE"
SLACK == "SLACK"
\* a source that is no rich-message platform
OtherSource == "ALEXA"
SUPPORTED_RICH_MESSAGE_PLATFORMS == {ACTIONS_ON_GOOGLE, SLACK}
\* values requestSource takes after processRequest_
Sources == {Absent, UNSPECIFIED, ACTIONS_ON_GOOGLE, SLACK, OtherSource}
\* platform tags of Suggestions and Payload elements
Tags == {Absent, UNSPECIFIED, ACTIONS_ON_GOOGLE}

NoError == ""
PlatformError == "Platform is not supported."
UnknownTypeError == "unknown response type"
NoHandlerError == "No handler for requested action"
HandlerTypeError == "handleRequest must contain a map of Dialogflow action names to function handlers"
ConstructionError == "construction failed"

VARIABLES
  phase,               \* "new" before construction, "ready" after, "failed" when the constructor threw
  agentVersion,        \* this.agentVersion (0 for null)
  client,              \* this.client: "none", "V1Agent" or "V2Agent"
  processed,           \* client.processRequest_ has run
  requestSource,       \* this.requestSource
  action,              \* this.action
  contexts,            \* this.contexts: the input contexts of the request
  followupEvent_,      \* this.followupEvent_: <<>> for null, <<event>> when set
  responseMessages_,   \* this.responseMessages_
  outgoingContexts_,   \* this.outgoingContexts_
  status,              \* arguments of the calls of response_.status, in order, as text
  sent,                \* the sequences handed to client.sendResponse_, in order
  added,               \* the arguments of the add calls that succeeded, in order
  last,                \* the last call: its name, argument, state before it and error
  cb,                  \* the invoked callback's computation
  result,              \* the promise handleRequest returned
  invoked,             \* the callbacks handleRequest invoked
  handler              \* the argument of handleRequest

vars == <<phase, agentVersion, client, processed, requestSource, action,
          contexts, followupEvent_,
          responseMessages_, outgoingContexts_, status, sent, added, last,
          cb, result, invoked, handler>>

reqVars == <<phase, agentVersion, client, processed, requestSource, action, contexts>>
dispatchVars == <<status, cb, result, invoked, handler>>

\* ------------------------------------------------------- response elements
Undefined == <<0, 0>>

\* the replies of the Suggestions element created by the id-th add call
Replies(id, n) == [j \in 1..n |-> <<id, j>>]

Elem(type, platform, replies, text, id) ==
  [type |-> type, platform |-> platform, replies |-> replies, text |-> text, id |-> id]

TextResponse(text, id) == Elem("Text", Absent, <<>>, text, id)

\* the blank text send_ builds
BlankText == TextResponse(" ", 0)

\* what a caller may pass to add: a string, a rich response, or anything else
AddArgs(id) ==
  {Elem("string", Absent, <<>>, "hi", id), TextResponse("hi", id),
   Elem("Card", Absent, <<>>, "", id), Elem("other", Absent, <<>>, "", id)}
  \cup {Elem("Suggestions", t, Replies(id, n), "", id) : t \in Tags, n \in 0..MaxReplies}
  \cup {Elem("Payload", t, <<>>, "", id) : t \in Tags}

isRichResponse(r) == r.type \in {"Text", "Card", "Image", "Suggestions", "Payload"}

\* !platform || platform === PLATFORMS.UNSPECIFIED
isUnspecified(platform) == platform = Absent \/ platform = UNSPECIFIED

Min(S) == CHOOSE x \in S : \A y \in S : x <= y

existingSuggestion_None(msgs, platform) == 0
\* index of the first Suggestions element for the platform, 0 for undefined
existingSuggestion_(msgs, platform) ==
  LET hits == {i \in 1..Len(msgs) :
                 /\ msgs[i].type = "Suggestions"
                 /\ \/ isUnspecified(msgs[i].platform) /\ isUnspecified(platform)
                    \/ platform = msgs[i].platform}
  IN IF hits = {} THEN 0 ELSE Min(hits)

existingPayload_Last(msgs, platform) ==
  LET hits == {i \in 1..Len(msgs) :
                 /\ msgs[i].type = "Payload"
                 /\ \/ isUnspecified(msgs[i].platform) /\ isUnspecified(platform)
                    \/ platform = msgs[i].platform}
  IN IF hits = {} THEN 0 ELSE CHOOSE x \in hits : \A y \in hits : y <= x
\* index of the first Payload element for the platform, 0 for undefined
existingPayload_(msgs, platform) ==
  LET hits == {i \in 1..Len(msgs) :
                 /\ msgs[i].type = "Payload"
                 /\ \/ isUnspecified(msgs[i].platform) /\ isUnspecified(platform)
                    \/ platform = msgs[i].platform}
  IN IF hits = {} THEN 0 ELSE Min(hits)

\* SuggestionsResponse.addReply_ of response-builder
addReply_(suggestion, reply) ==
  [suggestion EXCEPT !.replies = Append(suggestion.replies, reply)]

\* response.replies[0]
firstReply(response) ==
  IF Len(response.replies) = 0 THEN Undefined ELSE response.replies[1]

add_Prepend(msgs, response) ==
  LET r == IF response.type = "string" THEN TextResponse(response.text, response.id)
           ELSE response
      i == existingSuggestion_(msgs, r.platform)
  IN IF r.type = "Suggestions" /\ i # 0
       THEN [msgs |-> [msgs EXCEPT ![i] = addReply_(msgs[i], firstReply(r))],
             err |-> NoError]
     ELSE IF isRichResponse(r)
       THEN [msgs |-> <<r>> \o msgs, err |-> NoError]
     ELSE [msgs |-> msgs, err |-> UnknownTypeError]
add_AlwaysPush(msgs, response) ==
  LET r == IF response.type = "string" THEN TextResponse(response.text, response.id)
           ELSE response
  IN IF isRichResponse(r) THEN [msgs |-> Append(msgs, r), err |-> NoError]
     ELSE [msgs |-> msgs, err |-> UnknownTypeError]
\* add(response): the new responseMessages_ and the error thrown
add(msgs, response) ==
  LET r == IF response.type = "string" THEN TextResponse(response.text, response.id)
           ELSE response
      i == existingSuggestion_(msgs, r.platform)
  IN IF r.type = "Suggestions" /\ i # 0
       THEN [msgs |-> [msgs EXCEPT ![i] = addReply_(msgs[i], firstReply(r))],
             err |-> NoError]
     ELSE IF isRichResponse(r)
       THEN [msgs |-> Append(msgs, r), err |-> NoError]
     ELSE [msgs |-> msgs, err |-> UnknownTypeError]

\* ------------------------------------------------------------------ send_
platformUnsupported_Inverted(source) ==
  /\ source \in SUPPORTED_RICH_MESSAGE_PLATFORMS
  /\ source # Absent
  /\ source # UNSPECIFIED
platformUnsupported_NoSentinel(source) ==
  source \notin SUPPORTED_RICH_MESSAGE_PLATFORMS /\ source # Absent
\* the platform check that opens send_
platformUnsupported(source) ==
  /\ source \notin SUPPORTED_RICH_MESSAGE_PLATFORMS
  /\ source # Absent
  /\ source # UNSPECIFIED

needsLeadingText_NoTextCheck(msgs, source) ==
  /\ source = ACTIONS_ON_GOOGLE
  /\ Len(msgs) > 0
  /\ existingPayload_(msgs, ACTIONS_ON_GOOGLE) = 0
\* the condition under which send_ puts a blank text first
needsLeadingText(msgs, source) ==
  /\ source = ACTIONS_ON_GOOGLE
  /\ Len(msgs) > 0
  /\ msgs[1].type # "Text"
  /\ existingPayload_(msgs, ACTIONS_ON_GOOGLE) = 0

\* what a caller may pass to send_: nothing, one string or rich response,
\* an array of them, or anything else
NoResponse == [kind |-> "none", items |-> <<>>]
SendArgs(id) ==
  {NoResponse}
  \cup {[kind |-> "one", items |-> <<a>>] :
          a \in {Elem("string", Absent, <<>>, "hi", id), Elem("Card", Absent, <<>>, "", id),
                 Elem("Suggestions", Absent, Replies(id, 1), "", id),
                 Elem("other", Absent, <<>>, "", id)}}
  \cup {[kind |-> "array", items |-> <<Elem("string", Absent, <<>>, "hi", id),
                                       Elem("Card", Absent, <<>>, "", id + 1)>>]}

\* client.sendResponse_ of the version adapter: serialises responseMessages_
sendResponse_(msgs) == <<msgs>>

\* send_(response): the new responseMessages_, what the adapter was handed,
\* the add arguments that went through add, and the error thrown
send_(msgs, source, response) ==
  IF platformUnsupported(source)
    THEN [msgs |-> msgs, handed |-> <<>>, added |-> <<>>, err |-> PlatformError]
  ELSE
    LET led == IF needsLeadingText(msgs, source) THEN <<BlankText>> \o msgs ELSE msgs
    IN IF response.kind = "none"
         THEN [msgs |-> led, handed |-> sendResponse_(led), added |-> <<>>, err |-> NoError]
       ELSE IF response.kind = "one" /\ (response.items[1].type = "string"
                                        \/ isRichResponse(response.items[1]))
         THEN LET r == add(led, response.items[1])
              IN [msgs |-> r.msgs, handed |-> sendResponse_(r.msgs),
                  added |-> <<response.items[1]>>, err |-> NoError]
       \* an array has no isArray property: nothing is added
       ELSE [msgs |-> led, handed |-> sendResponse_(led), added |-> <<>>, err |-> NoError]

\* ---------------------------------------------------------------- history
\* a call: its name, its argument, the state it found, the error it threw,
\* the calls it made to the version adapter and the value it returned
CallTo(op, arg, pre, err, fwd, ret) ==
  [op |-> op, arg |-> arg, pre |-> pre, err |-> err, fwd |-> fwd, ret |-> ret]
Call(op, arg, pre, err) == CallTo(op, arg, pre, err, <<>>, <<>>)
NoCall == Call("none", Absent, <<>>, NoError)
NoCallback == [kind |-> "none", state |-> "none", left |-> 0, then |-> "none"]
NoResult == [state |-> "none", err |-> NoError]
NoHandler == [kind |-> "none", keys |-> {}]

\* ------------------------------------------- actions: response accumulator
\* a handler calls agent.add(response)
CallAdd ==
  /\ phase = "ready"
  /\ Len(added) < MaxAdds
  /\ \E response \in AddArgs(Len(added) + 1) :
       LET r == add(responseMessages_, response)
       IN /\ responseMessages_' = r.msgs
          /\ added' = IF r.err = NoError THEN Append(added, response) ELSE added
          /\ last' = Call("add", response, responseMessages_, r.err)
  /\ UNCHANGED <<reqVars, followupEvent_, dispatchVars, outgoingContexts_, sent>>

\* send_(response) is called directly; the adapter writes the response of
\* the request, which happens once
CallSend ==
  /\ phase = "ready"
  /\ sent = <<>>
  /\ Len(added) < MaxAdds
  /\ \E response \in SendArgs(Len(added) + 1) :
       LET r == send_(responseMessages_, requestSource, response)
       IN /\ responseMessages_' = r.msgs
          /\ sent' = sent \o r.handed
          /\ added' = added \o r.added
          /\ last' = Call("send_", response, responseMessages_, r.err)
  /\ UNCHANGED <<reqVars, followupEvent_, dispatchVars, outgoingContexts_>>

\* a constructed client, for any request source
InitAcc ==
  /\ phase = "ready"
  /\ agentVersion = 2
  /\ client = "V2Agent"
  /\ processed = TRUE
  /\ requestSource \in Sources
  /\ action = Absent
  /\ contexts = <<>>
  /\ followupEvent_ = <<>>
  /\ responseMessages_ = <<>>
  /\ outgoingContexts_ = <<>>
  /\ status = <<>>
  /\ sent = <<>>
  /\ added = <<>>
  /\ last = NoCall
  /\ cb = NoCallback
  /\ result = NoResult
  /\ invoked = <<>>
  /\ handler = NoHandler

NextAcc == CallAdd \/ CallSend

SpecAcc == InitAcc /\ [][NextAcc]_vars

\* ----------------------------------------------------------- construction
\* the options of new WebhookClient(options): whether the request and the
\* response handle are given, whether the request has a body, and whether
\* the body has a result and a queryResult field
Options ==
  [request : BOOLEAN, response : BOOLEAN, body : BOOLEAN,
   result : BOOLEAN, queryResult : BOOLEAN]

agentVersionOf_QueryResultFirst(options) ==
  IF options.queryResult THEN 2 ELSE IF options.result THEN 1 ELSE 0
\* this.agentVersion as the constructor sets it, 0 for null
agentVersionOf(options) ==
  IF options.result THEN 1 ELSE IF options.queryResult THEN 2 ELSE 0

\* the constructor throws: a handle is missing, the body cannot be read, or
\* the body is of neither version
constructorThrows(options) ==
  \/ ~options.request
  \/ ~options.response
  \/ ~options.body
  \/ agentVersionOf(options) = 0

Actions == {Absent, "order"}

\* the input contexts processRequest_ may find in a request; id tells
\* contexts of one name apart
InputContexts ==
  {<<>>,
   <<[name |-> <<"f", "o", "o">>, id |-> 1], [name |-> <<"f", "o", "o">>, id |-> 2]>>,
   <<[name |-> <<"b", "a", "r">>, id |-> 1], [name |-> <<"f", "o", "o">>, id |-> 2],
     [name |-> <<"b", "a", "r">>, id |-> 3]>>}

\* new WebhookClient(options); processRequest_ of the adapter fills in the
\* request source and the action
Construct ==
  /\ phase = "new"
  /\ \E options \in {o \in Options : ~o.body => ~o.result /\ ~o.queryResult} :
       IF constructorThrows(options)
         THEN /\ phase' = "failed"
              /\ agentVersion' = 0
              /\ last' = Call("constructor", options, <<>>, ConstructionError)
              /\ UNCHANGED <<client, processed, requestSource, action, contexts>>
         ELSE /\ phase' = "ready"
              /\ agentVersion' = agentVersionOf(options)
              /\ client' = IF agentVersion' = 2 THEN "V2Agent" ELSE "V1Agent"
              /\ processed' = TRUE
              /\ requestSource' \in Sources
              /\ action' \in Actions
              /\ contexts' \in InputContexts
              /\ last' = Call("constructor", options, <<>>, NoError)
  /\ UNCHANGED <<dispatchVars, followupEvent_, responseMessages_, outgoingContexts_,
                 sent, added>>

\* ----------------------------------------------------------- context store
\* names are strings of characters
Foo == <<"f", "o", "o">>
Bar == <<"b", "a", "r">>
FooBar == Foo \o Bar
BarFoo == Bar \o Foo
\* the session path a v2 context name starts with
SessionPath == <<"s", "/">>
OtherPath == <<"t", "/">>
NoName == <<>>

ContextNameError == "context must be provided and must have a name"
FollowupEventError == "Followup event must be a string or have a name string"
TypeError == "TypeError"

\* what a caller may pass to setContext: a string (possibly empty), an
\* object with or without a name, or nothing (undefined or null)
ContextArgs ==
  {[kind |-> "string", name |-> n] : n \in {Foo, FooBar, BarFoo, NoName}}
  \cup {[kind |-> "object", name |-> n] : n \in {Foo, OtherPath \o Foo, NoName}}
  \cup {[kind |-> "absent", name |-> NoName]}

\* addContext_ of the version adapter: v2 turns a short name into the path
\* of the context in the session, v1 keeps the name; without a context
\* there is no name to read
addContext_(version, outgoing, context) ==
  IF context.kind = "absent" THEN outgoing
  ELSE IF version = 2 /\ (\A i \in 1..Len(context.name) : context.name[i] # "/")
    THEN Append(outgoing, [name |-> SessionPath \o context.name])
    ELSE Append(outgoing, [name |-> context.name])

\* the error addContext_ of the version adapter ends with
addContextError(context) == IF context.kind = "absent" THEN TypeError ELSE NoError

\* setContext(context): the new outgoing contexts, the error thrown and the
\* contexts handed to addContext_ of the adapter
setContext(version, outgoing, context) ==
  LET c == IF context.kind = "string" THEN [kind |-> "object", name |-> context.name]
           ELSE context
  IN IF c.kind # "absent" /\ c.name = NoName
       THEN [contexts |-> outgoing, err |-> ContextNameError, fwd |-> <<>>]
       ELSE [contexts |-> addContext_(version, outgoing, c),
             err |-> addContextError(c), fwd |-> <<c>>]

\* String.prototype.slice with the start -n, n >= 0
slice(str, n) ==
  IF n = 0 \/ n >= Len(str) THEN str ELSE SubSeq(str, Len(str) - n + 1, Len(str))

clearContext_SuffixInV1(version, outgoing, context) ==
  SelectSeq(outgoing, LAMBDA ctx : slice(ctx.name, Len(context)) # context)
\* clearContext(context): the new outgoing contexts
clearContext(version, outgoing, context) ==
  IF version = 1
    THEN SelectSeq(outgoing, LAMBDA ctx : ctx.name # context)
  ELSE IF version = 2
    THEN SelectSeq(outgoing, LAMBDA ctx : slice(ctx.name, Len(context)) # context)
  ELSE outgoing

getContext_Last(inputs, contextName) ==
  LET found == SelectSeq(inputs, LAMBDA context : context.name = contextName)
  IN IF found = <<>> THEN <<>> ELSE <<found[Len(found)]>>
\* getContext(contextName): <<>> for null, <<context>> for a context
getContext(inputs, contextName) ==
  LET found == SelectSeq(inputs, LAMBDA context : context.name = contextName)
  IN IF found = <<>> THEN <<>> ELSE <<found[1]>>

\* what a caller may pass to setFollowupEvent: a string (possibly empty), an
\* object with a name, with an empty or missing name, or nothing
EventArgs ==
  {[kind |-> k, name |-> n] : k \in {"string", "object"}, n \in {Foo, NoName}}
  \cup {[kind |-> "absent", name |-> NoName]}

\* setFollowupEvent_ of the version adapter: keeps the event for the response
setFollowupEvent_(event) == <<[name |-> event.name]>>

setFollowupEvent_CheckedString(followup, event) ==
  IF event.kind = "absent"
    THEN [event |-> followup, err |-> TypeError, fwd |-> <<>>]
  ELSE IF event.name = NoName
    THEN [event |-> followup, err |-> FollowupEventError, fwd |-> <<>>]
  ELSE [event |-> setFollowupEvent_(event), err |-> NoError,
        fwd |-> <<[name |-> event.name]>>]
\* setFollowupEvent(event): the new followup event, the error thrown and the
\* events handed to setFollowupEvent_ of the adapter
setFollowupEvent(followup, event) ==
  IF event.kind = "string"
    THEN [event |-> setFollowupEvent_(event), err |-> NoError,
          fwd |-> <<[name |-> event.name]>>]
  ELSE IF event.kind = "absent"
    \* event.name of undefined
    THEN [event |-> followup, err |-> TypeError, fwd |-> <<>>]
  ELSE IF event.name = NoName
    THEN [event |-> followup, err |-> FollowupEventError, fwd |-> <<>>]
  ELSE [event |-> setFollowupEvent_(event), err |-> NoError,
        fwd |-> <<[name |-> event.name]>>]

\* a handler calls agent.setContext(context)
CallSetContext ==
  /\ phase = "ready"
  /\ Len(outgoingContexts_) < MaxContexts
  /\ \E context \in ContextArgs :
       LET r == setContext(agentVersion, outgoingContexts_, context)
       IN /\ outgoingContexts_' = r.contexts
          /\ last' = CallTo("setContext", context, outgoingContexts_, r.err, r.fwd, <<>>)
  /\ UNCHANGED <<reqVars, followupEvent_, dispatchVars, responseMessages_, sent, added>>

\* a handler calls agent.clearContext(context)
CallClearContext ==
  /\ phase = "ready"
  /\ \E context \in {Foo, Bar, FooBar} :
       /\ outgoingContexts_' = clearContext(agentVersion, outgoingContexts_, context)
       /\ last' = Call("clearContext", context, outgoingContexts_, NoError)
  /\ UNCHANGED <<reqVars, followupEvent_, dispatchVars, responseMessages_, sent, added>>

\* a handler calls agent.getContext(contextName)
CallGetContext ==
  /\ phase = "ready"
  /\ \E contextName \in {Foo, Bar, FooBar} :
       last' = CallTo("getContext", contextName, outgoingContexts_, NoError, <<>>,
                      getContext(contexts, contextName))
  /\ UNCHANGED <<reqVars, followupEvent_, dispatchVars, responseMessages_,
                 outgoingContexts_, sent, added>>

\* a handler calls agent.setFollowupEvent(event)
CallSetFollowupEvent ==
  /\ phase = "ready"
  /\ \E event \in EventArgs :
       LET r == setFollowupEvent(followupEvent_, event)
       IN /\ followupEvent_' = r.event
          /\ last' = CallTo("setFollowupEvent", event, followupEvent_, r.err, r.fwd, <<>>)
  /\ UNCHANGED <<reqVars, dispatchVars, responseMessages_, outgoingContexts_,
                 sent, added>>

\* a handler calls agent.clearOutgoingContexts()
CallClearOutgoingContexts ==
  /\ phase = "ready"
  /\ outgoingContexts_' = <<>>
  /\ last' = Call("clearOutgoingContexts", Absent, outgoingContexts_, NoError)
  /\ UNCHANGED <<reqVars, followupEvent_, dispatchVars, responseMessages_, sent, added>>

\* before new WebhookClient(options)
Init ==
  /\ phase = "new"
  /\ agentVersion = 0
  /\ client = "none"
  /\ processed = FALSE
  /\ requestSource = Absent
  /\ action = Absent
  /\ contexts = <<>>
  /\ followupEvent_ = <<>>
  /\ responseMessages_ = <<>>
  /\ outgoingContexts_ = <<>>
  /\ status = <<>>
  /\ sent = <<>>
  /\ added = <<>>
  /\ last = NoCall
  /\ cb = NoCallback
  /\ result = NoResult
  /\ invoked = <<>>
  /\ handler = NoHandler

Next ==
  \/ Construct
  \/ CallSetContext
  \/ CallClearContext
  \/ CallClearOutgoingContexts
  \/ CallGetContext
  \/ CallSetFollowupEvent

Spec == Init /\ [][Next]_vars

\* --------------------------------------------------------- dispatch engine
CallbackError == "callback rejected"
\* the keys a handler map may have; Absent is the null key
Keys == {Absent, "order", "cancel"}

\* what a caller may pass to handleRequest: a function, a Map of callbacks
\* by action name, or anything else
Handlers ==
  {[kind |-> "function", keys |-> {}], [kind |-> "other", keys |-> {}]}
  \cup {[kind |-> "map", keys |-> K] : K \in SUBSET Keys}

\* what a callback returns: a plain value, a native Promise, or another
\* promise-like object
Returns == {"value", "promise", "thenable"}

\* what a callback adds
CallbackAdds(id) ==
  {Elem("string", Absent, <<>>, "hi", id), Elem("Card", Absent, <<>>, "", id)}

resolve_InvalidAsUnhandled(h, act) ==
  IF h.kind = "function" THEN "function"
  ELSE IF h.kind = "map" /\ act \in h.keys THEN act
  ELSE IF h.kind = "map" /\ Absent \in h.keys THEN Absent
  ELSE "unhandled"
resolve_WildcardFirst(h, act) ==
  IF h.kind = "function" THEN "function"
  ELSE IF h.kind # "map" THEN "invalid"
  ELSE IF Absent \in h.keys THEN Absent
  ELSE IF act \in h.keys THEN act
  ELSE "unhandled"
\* the callback handleRequest picks: "function", the key of a map entry,
\* "invalid" for a handler of the wrong type, "unhandled" for no entry
resolve(h, act) ==
  IF h.kind = "function" THEN "function"
  ELSE IF h.kind # "map" THEN "invalid"
  ELSE IF act \in h.keys THEN act
  ELSE IF Absent \in h.keys THEN Absent
  ELSE "unhandled"

awaited_Thenables(returned) == returned \in {"promise", "thenable"}
\* result instanceof Promise
awaited(returned) == returned = "promise"

\* handleRequest(handler), up to its return: the callback runs up to its own
\* return and may add elements; what it returns may still be computing
CallHandleRequest ==
  /\ phase = "ready"
  /\ handler = NoHandler
  /\ \E h \in Handlers :
       /\ handler' = h
       /\ last' = Call("handleRequest", h, responseMessages_, NoError)
       /\ IF resolve(h, action) = "invalid"
            THEN /\ result' = [state |-> "rejected", err |-> HandlerTypeError]
                 /\ UNCHANGED <<status, cb, invoked, responseMessages_, added>>
          ELSE IF resolve(h, action) = "unhandled"
            THEN /\ status' = status \o <<ToString(RESPONSE_CODE_BAD_REQUEST), NoHandlerError>>
                 /\ result' = [state |-> "rejected", err |-> NoHandlerError]
                 /\ UNCHANGED <<cb, invoked, responseMessages_, added>>
          ELSE /\ invoked' = Append(invoked, resolve(h, action))
               /\ \E returned \in Returns :
                    cb' = [kind |-> returned,
                           state |-> IF returned = "value" THEN "fulfilled" ELSE "pending",
                           left |-> IF returned = "value" THEN 0 ELSE MaxDeferred,
                           then |-> "pending"]
               /\ \/ UNCHANGED <<responseMessages_, added>>
                  \/ \E response \in CallbackAdds(Len(added) + 1) :
                       /\ responseMessages_' = add(responseMessages_, response).msgs
                       /\ added' = Append(added, response)
               /\ result' = [state |-> "pending", err |-> NoError]
               /\ UNCHANGED status
  /\ UNCHANGED <<reqVars, followupEvent_, outgoingContexts_, sent>>

\* the computation behind the returned promise or promise-like adds an element
CallbackAdd ==
  /\ cb.state = "pending"
  /\ cb.left > 0
  /\ \E response \in CallbackAdds(Len(added) + 1) :
       /\ responseMessages_' = add(responseMessages_, response).msgs
       /\ added' = Append(added, response)
       /\ last' = Call("add", response, responseMessages_, NoError)
  /\ cb' = [cb EXCEPT !.left = @ - 1]
  /\ UNCHANGED <<reqVars, followupEvent_, outgoingContexts_, sent, status, result, invoked, handler>>

\* the computation completes; a rejected awaited promise rejects the promise
\* handleRequest returned and the then-callback never runs
CallbackSettle ==
  /\ cb.state = "pending"
  /\ \E outcome \in {"fulfilled", "rejected"} :
       IF outcome = "rejected" /\ awaited(cb.kind) /\ cb.then = "pending"
         THEN /\ cb' = [cb EXCEPT !.state = outcome, !.then = "skipped"]
              /\ result' = [state |-> "rejected", err |-> CallbackError]
         ELSE /\ cb' = [cb EXCEPT !.state = outcome]
              /\ UNCHANGED result
  /\ UNCHANGED <<reqVars, followupEvent_, outgoingContexts_, responseMessages_, sent, added, last,
                 status, invoked, handler>>

\* promise.then(() => this.send_()): runs once the awaited promise is
\* fulfilled, or as the next job when the result was not a Promise
ThenSend ==
  /\ cb.then = "pending"
  /\ awaited(cb.kind) => cb.state = "fulfilled"
  /\ LET r == send_(responseMessages_, requestSource, NoResponse)
     IN /\ responseMessages_' = r.msgs
        /\ sent' = sent \o r.handed
        /\ last' = Call("send_", NoResponse, responseMessages_, r.err)
        /\ result' = IF r.err = NoError THEN [state |-> "fulfilled", err |-> NoError]
                     ELSE [state |-> "rejected", err |-> r.err]
  /\ cb' = [cb EXCEPT !.then = "done"]
  /\ UNCHANGED <<reqVars, followupEvent_, outgoingContexts_, added, status, invoked, handler>>

\* a constructed client, for any request source and action, to which a
\* card, a context and a followup event may have been given already
InitDispatch ==
  /\ phase = "ready"
  /\ agentVersion = 2
  /\ client = "V2Agent"
  /\ processed = TRUE
  /\ requestSource \in Sources
  /\ action \in Actions
  /\ contexts = <<>>
  /\ followupEvent_ \in {<<>>, setFollowupEvent(<<>>, [kind |-> "string", name |-> Foo]).event}
  /\ added \in {<<>>, <<Elem("Card", Absent, <<>>, "", 1)>>}
  /\ responseMessages_ = added
  /\ outgoingContexts_ \in
       {<<>>, setContext(2, <<>>, [kind |-> "string", name |-> Foo]).contexts}
  /\ status = <<>>
  /\ sent = <<>>
  /\ last = NoCall
  /\ cb = NoCallback
  /\ result = NoResult
  /\ invoked = <<>>
  /\ handler = NoHandler

NextDispatch ==
  \/ CallHandleRequest
  \/ CallbackAdd
  \/ CallbackSettle
  \/ ThenSend

SpecDispatch == InitDispatch /\ [][NextDispatch]_vars

\* ======================================================== properties
\* absent and 'unspecified' are one tag
TagClass(t) == IF t \in {Absent, UNSPECIFIED} THEN UNSPECIFIED ELSE t
TagClasses == {UNSPECIFIED, ACTIONS_ON_GOOGLE}

OfTag(seq, type, t) ==
  SelectSeq(seq, LAMBDA e : e.type = type /\ TagClass(e.platform) = t)

RECURSIVE ConcatReplies(_)
ConcatReplies(seq) ==
  IF seq = <<>> THEN <<>> ELSE seq[1].replies \o ConcatReplies(Tail(seq))

\* C1: when two or more Suggestions elements were added for one platform
\* tag, the accumulated sequence holds exactly one Suggestions element for
\* the tag and its replies are all the replies added for the tag, in call
\* order.
C1_SuggestionsConcatenated ==
  \A t \in TagClasses :
    Len(OfTag(added, "Suggestions", t)) >= 2 =>
      /\ Len(OfTag(responseMessages_, "Suggestions", t)) = 1
      /\ OfTag(responseMessages_, "Suggestions", t)[1].replies
           = ConcatReplies(OfTag(added, "Suggestions", t))

NoPayloadFor(msgs, t) ==
  \A i \in 1..Len(msgs) : ~(msgs[i].type = "Payload" /\ msgs[i].platform = t)

\* C2: on an Actions on Google request with no Payload for that platform,
\* send_() with no argument hands the adapter the accumulated sequence with
\* one blank Text put first when the first element is not a Text, and the
\* accumulated sequence unchanged when the first element is a Text.
C2_LeadingText ==
  ( /\ last.op = "send_"
    /\ last.arg = NoResponse
    /\ requestSource = ACTIONS_ON_GOOGLE
    /\ Len(last.pre) > 0
    /\ NoPayloadFor(last.pre, ACTIONS_ON_GOOGLE) )
  => sent = << IF last.pre[1].type # "Text"
                 THEN <<BlankText>> \o last.pre ELSE last.pre >>

C2_Witness ==
  /\ last.op = "send_"
  /\ last.arg = NoResponse
  /\ requestSource = ACTIONS_ON_GOOGLE
  /\ Len(last.pre) = 2
  /\ last.pre[1].type = "Card"
  /\ NoPayloadFor(last.pre, ACTIONS_ON_GOOGLE)
  /\ Len(sent) = 1
  /\ sent[1][1] = BlankText

\* the rich responses the add calls were given, strings wrapped
AddedElems ==
  [i \in 1..Len(added) |->
     IF added[i].type = "string" THEN TextResponse(added[i].text, added[i].id)
     ELSE added[i]]

\* C7: two Payload elements added for the same platform tag both stay in
\* the accumulated sequence, as distinct elements in add order, and
\* existingPayload_ for the tag returns the one added first.
C7_PayloadsKept ==
  \A t \in TagClasses :
    Len(OfTag(added, "Payload", t)) >= 2 =>
      /\ OfTag(responseMessages_, "Payload", t) = OfTag(AddedElems, "Payload", t)
      /\ \A p \in {q \in Tags : TagClass(q) = t} :
           /\ existingPayload_(responseMessages_, p) # 0
           /\ responseMessages_[existingPayload_(responseMessages_, p)]
                = OfTag(AddedElems, "Payload", t)[1]

C7_Witness ==
  /\ Len(OfTag(added, "Payload", ACTIONS_ON_GOOGLE)) = 2
  /\ Len(OfTag(responseMessages_, "Payload", ACTIONS_ON_GOOGLE)) = 2
  /\ Len(responseMessages_) = 3
  /\ responseMessages_[1].type = "Card"

AtMostOne(msgs, type) ==
  \A t \in TagClasses : Len(OfTag(msgs, type, t)) <= 1

\* C8 as stated: every sequence handed to the adapter holds at most one
\* Suggestions element and at most one Payload element per platform tag.
C8_AtMostOneEach ==
  \A k \in 1..Len(sent) :
    AtMostOne(sent[k], "Suggestions") /\ AtMostOne(sent[k], "Payload")

\* C8 amended: every sequence handed to the adapter holds at most one
\* Suggestions element per platform tag (absent and 'unspecified' being one
\* tag); Payload elements are not merged and may repeat.
C8_AtMostOneSuggestions ==
  \A k \in 1..Len(sent) : AtMostOne(sent[k], "Suggestions")

C8_Witness ==
  /\ Len(sent) = 1
  /\ Len(OfTag(added, "Suggestions", UNSPECIFIED)) = 2
  /\ Len(OfTag(sent[1], "Suggestions", UNSPECIFIED)) = 1
  /\ Len(OfTag(sent[1], "Payload", UNSPECIFIED)) = 1

\* C9: send_ fails exactly when the request source is present, is not the
\* 'unspecified' sentinel and is not a supported rich-message platform; when
\* it fails the adapter is not invoked and the accumulated sequence is
\* unchanged.
C9_PlatformValidation ==
  last.op = "send_" =>
    /\ last.err = PlatformError
         <=> requestSource \notin {Absent, UNSPECIFIED, ACTIONS_ON_GOOGLE, SLACK}
    /\ last.err # PlatformError => last.err = NoError /\ Len(sent) = 1
    /\ last.err = PlatformError => sent = <<>> /\ responseMessages_ = last.pre

C9_Witness ==
  /\ last.op = "send_"
  /\ last.err = PlatformError
  /\ requestSource = OtherSource
  /\ Len(last.pre) = 2
  /\ last.pre[1].type = "Card"
  /\ sent = <<>>

\* the name is "foo" or a path that ends in "/foo"
IsFooOrPathToFoo(name) ==
  \/ name = Foo
  \/ Len(name) >= 4 /\ SubSeq(name, Len(name) - 3, Len(name)) = <<"/">> \o Foo

RECURSIVE Without(_, _)
\* the contexts of seq whose name is not in names, in their order
Without(seq, names) ==
  IF seq = <<>> THEN <<>>
  ELSE IF seq[1].name \in names THEN Without(Tail(seq), names)
  ELSE <<seq[1]>> \o Without(Tail(seq), names)

NamesOf(seq) == {seq[i].name : i \in 1..Len(seq)}

\* C4: under protocol v2, clearContext("foo") removes the outgoing contexts
\* named "foo" or by a path ending in "/foo", and leaves every other
\* outgoing context in place, in the original order.
C4_ClearContextV2 ==
  (last.op = "clearContext" /\ agentVersion = 2 /\ last.arg = Foo) =>
    outgoingContexts_
      = Without(last.pre, {n \in NamesOf(last.pre) : IsFooOrPathToFoo(n)})

\* C5: under protocol v1, clearContext(name) removes exactly the outgoing
\* contexts named name and keeps every other one, in the original order.
C5_ClearContextV1 ==
  (last.op = "clearContext" /\ agentVersion = 1) =>
    outgoingContexts_ = Without(last.pre, {last.arg})

C5_Witness ==
  /\ last.op = "clearContext"
  /\ agentVersion = 1
  /\ last.arg = Foo
  /\ last.pre = <<[name |-> BarFoo], [name |-> Foo], [name |-> OtherPath \o Foo]>>
  /\ outgoingContexts_ = <<[name |-> BarFoo], [name |-> OtherPath \o Foo]>>

HandlesGiven(options) == options.request /\ options.response /\ options.body

\* C6 as stated: a payload with a result field gives version 1 and the v1
\* adapter, a payload with a queryResult field gives version 2 and the v2
\* adapter, and a payload with neither, or a missing handle, fails
\* construction before an adapter exists or processRequest_ runs.
C6_VersionByField ==
  last.op = "constructor" =>
    /\ (HandlesGiven(last.arg) /\ last.arg.result)
         => phase = "ready" /\ agentVersion = 1 /\ client = "V1Agent"
    /\ (HandlesGiven(last.arg) /\ last.arg.queryResult)
         => phase = "ready" /\ agentVersion = 2 /\ client = "V2Agent"
    /\ (~HandlesGiven(last.arg) \/ (~last.arg.result /\ ~last.arg.queryResult))
         => phase = "failed" /\ client = "none" /\ ~processed

\* C6 amended: a payload with a result field gives version 1 and the v1
\* adapter whether or not it also has a queryResult field; a payload with a
\* queryResult field and no result field gives version 2 and the v2 adapter;
\* a payload with neither, or a missing handle, fails construction before an
\* adapter exists or processRequest_ runs.
C6_VersionByFieldResultFirst ==
  last.op = "constructor" =>
    /\ (HandlesGiven(last.arg) /\ last.arg.result)
         => phase = "ready" /\ agentVersion = 1 /\ client = "V1Agent" /\ processed
    /\ (HandlesGiven(last.arg) /\ last.arg.queryResult /\ ~last.arg.result)
         => phase = "ready" /\ agentVersion = 2 /\ client = "V2Agent" /\ processed
    /\ (~HandlesGiven(last.arg) \/ (~last.arg.result /\ ~last.arg.queryResult))
         => phase = "failed" /\ client = "none" /\ ~processed /\ last.err # NoError

C6_Witness ==
  /\ last.op = "constructor"
  /\ HandlesGiven(last.arg)
  /\ last.arg.queryResult
  /\ ~last.arg.result
  /\ phase = "ready"
  /\ agentVersion = 2
  /\ client = "V2Agent"

\* C3: handleRequest with a map that has no entry for the action and no
\* wildcard entry returns a rejected promise, invokes no callback, never has
\* the adapter send, and leaves the status of the host response at 400.
C3_NoHandlerStatus400 ==
  ( /\ handler.kind = "map"
    /\ action \notin handler.keys
    /\ Absent \notin handler.keys )
  => /\ result.state = "rejected"
     /\ invoked = <<>>
     /\ sent = <<>>
     /\ status # <<>>
     /\ status[Len(status)] = ToString(RESPONSE_CODE_BAD_REQUEST)

\* C10: whatever the invoked callback returns (a plain value, a native
\* promise or another promise-like), the adapter's send is invoked once,
\* with no argument, only after the callback's computation has completed,
\* and what is sent holds every element the callback added.
C10_SendAfterCompletion ==
  /\ Len(sent) <= 1
  /\ result.state = "fulfilled" => Len(sent) = 1
  /\ sent # <<>> => cb.state # "pending"
  /\ (sent # <<>> /\ cb.state # "pending") =>
       \A i \in 1..Len(AddedElems) :
         \E j \in 1..Len(sent[1]) : sent[1][j] = AddedElems[i]

\* the same, for callbacks that return a plain value or a native promise
SendAfterCompletionOfAwaited ==
  (cb.kind # "thenable") => C10_SendAfterCompletion

\* C11: when the computation the callback returned is rejected, the promise
\* handleRequest returned is rejected with the same failure, the adapter
\* never sends, and no callback is invoked again.
C11_RejectionPropagates ==
  cb.state = "rejected" =>
    /\ result = [state |-> "rejected", err |-> CallbackError]
    /\ sent = <<>>
    /\ Len(invoked) = 1

\* the same, for callbacks that return a native promise
RejectionOfAwaitedPropagates ==
  (cb.kind = "promise") => C11_RejectionPropagates

RECURSIVE AddEach(_, _)
\* add applied to each item in order
AddEach(msgs, items) ==
  IF items = <<>> THEN msgs ELSE AddEach(add(msgs, items[1]).msgs, Tail(items))

\* C12: send_(response) with a sequence of strings and elements, or with one
\* string or element, hands the adapter the accumulated sequence followed by
\* the supplied elements as add takes them (after a blank Text, if one was
\* put first).
C12_SendAddsEach ==
  ( /\ last.op = "send_"
    /\ last.err = NoError
    /\ last.arg.kind \in {"array", "one"}
    /\ \A i \in 1..Len(last.arg.items) : last.arg.items[i].type # "other" )
  => /\ Len(sent) = 1
     /\ sent[1] \in {AddEach(last.pre, last.arg.items),
                     <<BlankText>> \o AddEach(last.pre, last.arg.items)}

\* the same, for one string or element
SendAddsOne ==
  (last.op = "send_" /\ last.arg.kind = "one") => C12_SendAddsEach

\* C13: handleRequest with an argument that is neither a function nor a Map
\* returns a rejected promise, invokes no callback, does not have the
\* adapter send, does not set the status, and leaves the accumulated
\* elements, the outgoing contexts and the followup event as they were.
C13_InvalidHandlerRejected ==
  [][ (handler.kind = "none" /\ handler'.kind = "other") =>
        /\ result' = [state |-> "rejected", err |-> HandlerTypeError]
        /\ invoked' = <<>>
        /\ sent' = <<>>
        /\ status' = <<>>
        /\ cb' = NoCallback
        /\ UNCHANGED <<responseMessages_, outgoingContexts_, followupEvent_>> ]_vars

C13_Witness ==
  /\ handler.kind = "other"
  /\ result.state = "rejected"
  /\ Len(responseMessages_) = 1
  /\ Len(outgoingContexts_) = 1
  /\ Len(followupEvent_) = 1
  /\ status = <<>>

\* C14: setContext fails with the validation error whenever its argument
\* gives no context with a non-empty name, also when there is no argument;
\* then addContext_ of the adapter is not invoked and the outgoing contexts
\* are unchanged.  For a non-empty string, addContext_ receives {name} once.
C14_SetContextValidates ==
  last.op = "setContext" =>
    IF last.arg.kind = "absent" \/ last.arg.name = NoName
      THEN /\ last.err = ContextNameError
           /\ last.fwd = <<>>
           /\ outgoingContexts_ = last.pre
      ELSE /\ last.err = NoError
           /\ last.fwd = <<[kind |-> "object", name |-> last.arg.name]>>

\* the same, when a string or an object is given
SetContextValidatesGiven ==
  (last.op = "setContext" /\ last.arg.kind # "absent") => C14_SetContextValidates

\* C15: setFollowupEvent fails, and hands nothing to setFollowupEvent_ of the
\* adapter, for every event whose name is missing or empty, given as a
\* string or as an object; for a non-empty name the adapter receives an
\* event of that name once.
C15_FollowupEventValidates ==
  last.op = "setFollowupEvent" =>
    IF last.arg.kind = "absent" \/ last.arg.name = NoName
      THEN /\ last.err # NoError
           /\ last.fwd = <<>>
           /\ followupEvent_ = last.pre
      ELSE /\ last.err = NoError
           /\ last.fwd = <<[name |-> last.arg.name]>>

\* the same, when an object or nothing is given
FollowupEventValidatesObjects ==
  (last.op = "setFollowupEvent" /\ last.arg.kind # "string")
    => C15_FollowupEventValidates

RECURSIVE FirstNamed(_, _)
\* the first context of seq with the name, <<>> when there is none
FirstNamed(seq, name) ==
  IF seq = <<>> THEN <<>>
  ELSE IF seq[1].name = name THEN <<seq[1]>>
  ELSE FirstNamed(Tail(seq), name)

\* C16: getContext(name) returns the first input context of that name, or
\* null, and changes no state; no call on a constructed client changes the
\* input contexts, so its result for a name stays the same.
C16_GetContextReadsInputs ==
  /\ [](last.op = "getContext" => last.ret = FirstNamed(contexts, last.arg))
  /\ [][ /\ phase = "ready" => contexts' = contexts
         /\ last'.op = "getContext" =>
              UNCHANGED <<reqVars, outgoingContexts_, followupEvent_,
                          responseMessages_, sent, status>> ]_vars

C16_Witness ==
  /\ last.op = "getContext"
  /\ last.arg = Foo
  /\ Len(contexts) = 2
  /\ contexts[2].name = Foo
  /\ last.ret = <<contexts[1]>>
  /\ Len(outgoingContexts_) = 2

\* C17: with a Map, handleRequest invokes the entry of the action when there
\* is one, the null entry only when there is none for the action, and no
\* callback when there is neither; a function is invoked whatever the action.
C17_OneCallbackResolved ==
  handler.kind # "none" =>
    invoked =
      IF handler.kind = "function" THEN <<"function">>
      ELSE IF handler.kind # "map" THEN <<>>
      ELSE IF action \in handler.keys THEN <<action>>
      ELSE IF Absent \in handler.keys THEN <<Absent>>
      ELSE <<>>

C17_Witness ==
  /\ handler.kind = "map"
  /\ handler.keys = {Absent, "order"}
  /\ action = "order"
  /\ invoked = <<"order">>
  /\ result.state = "fulfilled"

\* C18: on an Actions on Google request with no Payload for that platform,
\* every non-empty sequence handed to the adapter starts with a Text, the
\* response given to send_ counted in.
C18_TextFirstWhenSent ==
  \A k \in 1..Len(sent) :
    ( /\ requestSource = ACTIONS_ON_GOOGLE
      /\ NoPayloadFor(sent[k], ACTIONS_ON_GOOGLE)
      /\ sent[k] # <<>> )
    => sent[k][1].type = "Text"

\* the same, for send_ without a response
TextFirstWhenSentWithout ==
  (last.op = "send_" /\ last.arg = NoResponse) => C18_TextFirstWhenSent

HasSuggestionsFor(msgs, platform) ==
  \E i \in 1..Len(msgs) :
    msgs[i].type = "Suggestions" /\ TagClass(msgs[i].platform) = TagClass(platform)

\* C19: add appends a string as a Text, appends every rich response other
\* than a Suggestions that is merged, and fails with 'unknown response type'
\* for anything else, leaving the sequence as it was; the elements are in
\* the order they were added.
C19_AddAppends ==
  /\ last.op = "add" =>
       IF last.arg.type = "other"
         THEN last.err = UnknownTypeError /\ responseMessages_ = last.pre
       ELSE IF last.arg.type = "string"
         THEN /\ last.err = NoError
              /\ responseMessages_
                   = Append(last.pre, TextResponse(last.arg.text, last.arg.id))
       ELSE IF last.arg.type = "Suggestions"
               /\ HasSuggestionsFor(last.pre, last.arg.platform)
         THEN last.err = NoError /\ Len(responseMessages_) = Len(last.pre)
       ELSE last.err = NoError /\ responseMessages_ = Append(last.pre, last.arg)
  /\ \A i, j \in 1..Len(responseMessages_) :
       i < j => responseMessages_[i].id < responseMessages_[j].id

C19_Witness ==
  /\ last.op = "add"
  /\ last.arg.type = "other"
  /\ last.err = UnknownTypeError
  /\ Len(last.pre) = 2
  /\ last.pre[1].type = "Text"
  /\ last.pre[2].type = "Payload"
  /\ responseMessages_ = last.pre

\* C20: on a request of an unsupported platform, handleRequest with a
\* function, or with a Map that has the action or a null entry, invokes the
\* callback, whose elements are accumulated; once send_ has run the promise
\* is rejected with the platform error; the adapter never sends and the
\* status is never set.
C20_UnsupportedPlatformDispatch ==
  ( /\ requestSource = OtherSource
    /\ \/ handler.kind = "function"
       \/ handler.kind = "map" /\ (action \in handler.keys \/ Absent \in handler.keys) )
  => /\ Len(invoked) = 1
     /\ responseMessages_ = AddedElems
     /\ sent = <<>>
     /\ status = <<>>
     /\ result.state # "fulfilled"
     /\ cb.then = "done" => result = [state |-> "rejected", err |-> PlatformError]

C20_Witness ==
  /\ requestSource = OtherSource
  /\ handler.kind = "function"
  /\ invoked = <<"function">>
  /\ cb.kind = "promise"
  /\ cb.then = "done"
  /\ Len(responseMessages_) = 3
  /\ result = [state |-> "rejected", err |-> PlatformError]
  /\ sent = <<>>
====
